---- MODULE Spec2Model ----
(***************************************************************************)
(* A model of the applespi keyboard/touchpad driver (src/applespi.c).      *)
(*                                                                         *)
(* The driver state is struct applespi_data plus the two module            *)
(* parameters.  The specifications share the variables:                    *)
(*   SpecLed  the caps-lock LED command queue (applespi_set_leds,          *)
(*            applespi_send_leds_cmd, applespi_async_write_complete);      *)
(*   SpecKbd  the packet handler behind the asynchronous read              *)
(*            (applespi_async_read_complete, applespi_got_data) on         *)
(*            keyboard packets;                                            *)
(*   SpecTp   the same handler on touchpad packets (report_tp_state);      *)
(*   SpecKey  the pure key translation applespi_code_to_key;               *)
(*   SpecDev  the life of the device: applespi_probe, applespi_notify and  *)
(*            the read it queues, suspend, resume, remove (SpecDevLive     *)
(*            adds that the SPI core completes the reads it queued);       *)
(*   SpecLedWrap  SpecLed with the message counter near its wrap;          *)
(*   SpecPkt  the packet handler on packets of every tag in one stream;    *)
(*   SpecPm   the LED queue across applespi_suspend and applespi_resume.   *)
(* All but SpecDev start from a probed device and leave out the GPE that   *)
(* triggers a read.                                                        *)
(* Each specification moves the variables of its component and leaves the  *)
(* others at their initial values.  Variables named in the sections        *)
(* "observers" are not driver state: they record what the driver handed to *)
(* the SPI core and to the input core, so that properties can speak of it. *)
(***************************************************************************)
EXTENDS Integers, Sequences, FiniteSets, TLC

VARIABLES
    \* struct applespi_data
    tx_buffer,              \* u8 *tx_buffer, 256 bytes, indexed from 0
    rx_buffer,              \* u8 *rx_buffer, as the decoded packet it holds
    rd_m_status,            \* rd_m.status, the outcome of the last read
    last_keys_pressed,      \* u8 last_keys_pressed[MAX_ROLLOVER]
    last_keys_fn_pressed,   \* u8 last_keys_fn_pressed[MAX_ROLLOVER]
    last_fn_pressed,        \* u8 last_fn_pressed
    tp_info,                \* const struct applespi_tp_info *tp_info
    pos,                    \* struct input_mt_pos pos[MAX_FINGERS]: the leading
                            \* entries, which the last touchpad frame filled
    slots,                  \* int slots[MAX_FINGERS]: the leading entries, which
                            \* the last assignment filled
    want_cl_led_on,         \* bool want_cl_led_on
    have_cl_led_on,         \* bool have_cl_led_on
    led_msg_cntr,           \* unsigned led_msg_cntr
    led_msg_queued,         \* bool led_msg_queued
    led_msg_lock,           \* spinlock_t led_msg_lock: held
    \* module parameters
    fnmode,                 \* static unsigned int fnmode
    iso_layout,             \* static unsigned int iso_layout
    \* the input core
    mt_slots,               \* touchpad_input_dev->mt->slots: in use, and the
                            \* position reported for a slot in use
    \* the SPI core
    wr_inflight,            \* wr_m messages queued by spi_async, not yet completed
    \* observers of the LED queue
    led_log,                \* every command handed to spi_async, in order, with
                            \* spi_async's answer, the caller, the flag as tested
                            \* and the requests made during the preceding flight
    led_requests,           \* number of applespi_set_leds calls so far
    flight_reqs,            \* values requested since the in-flight command was queued
    \* observers of the keyboard handler
    kbd_events,             \* input_report_key calls of the last packet handled
    oob_index,              \* applespi_scancodes was indexed at or beyond its size
    press_fn,               \* per key held: Fn byte of the frame it first appeared in
    keys_down,              \* key codes the key loops reported down and not up since
    fn_history,             \* Fn byte of the last Keyboard packet handled and the
                            \* value of the last KEY_FN report
    \* observers of the touchpad handler
    tp_events,              \* report_finger_data calls of the last packet handled
    tp_released,            \* slots input_mt_sync_frame dropped on that packet
    \* the device: struct applespi_data, ACPI and the PM core
    spi_settings,           \* struct spi_settings spi_settings
    tx_status,              \* u8 *tx_status, 4 bytes
    gpe_handler,            \* applespi_notify is installed on the GPE
    gpe_enabled,            \* the GPE is enabled (acpi_enable_gpe)
    gpe_masked,             \* the GPE has fired and waits for acpi_finish_gpe
    rd_inflight,            \* rd_m is queued by spi_async, not yet completed
    probe_ret,              \* what applespi_probe returned, once it has run
    suspended,              \* the PM core has suspended the device
    removed,                \* applespi_remove has run
    \* observers of the device
    init_errors,            \* the errors applespi_probe met on its way
    sync_seen,              \* the last applespi_sync_write_and_response: the
                            \* transfer result, the status bytes, what it
                            \* returned and what it logged
    init_seen,              \* the last applespi_init: its caller, and whether
                            \* the GPE was enabled and rd_m in flight
    notify_seen,            \* the last applespi_notify: whether rd_m was in
                            \* flight when it set rd_m, dl_t and rd_t up
    \* applespi_code_to_key taken alone
    ck_in,                  \* the arguments and parameters of one call
    ck_out                  \* its result

vars == <<tx_buffer, rx_buffer, rd_m_status, last_keys_pressed, last_keys_fn_pressed,
          last_fn_pressed, want_cl_led_on, have_cl_led_on, led_msg_cntr,
          led_msg_queued, led_msg_lock, fnmode, iso_layout, wr_inflight,
          led_log,
          led_requests, flight_reqs, kbd_events, oob_index, press_fn,
          keys_down, fn_history,
          ck_in, ck_out, tp_info, pos, slots, mt_slots, tp_events,
          tp_released, spi_settings, tx_status, gpe_handler, gpe_enabled,
          gpe_masked, rd_inflight, probe_ret, suspended, removed,
          init_errors, sync_seen, init_seen,
          notify_seen>>

ledVars == <<tx_buffer, want_cl_led_on, have_cl_led_on, led_msg_cntr,
             led_msg_queued, led_msg_lock, wr_inflight, led_log, led_requests,
             flight_reqs>>

kbdVars == <<rx_buffer, rd_m_status, last_keys_pressed, last_keys_fn_pressed,
             last_fn_pressed, kbd_events, oob_index, press_fn,
             keys_down, fn_history>>

tpVars == <<tp_info, pos, slots, mt_slots, tp_events, tp_released>>

paramVars == <<fnmode, iso_layout>>

ckVars == <<ck_in, ck_out>>

devVars == <<spi_settings, tx_status, gpe_handler, gpe_enabled, gpe_masked,
             rd_inflight, probe_ret, suspended, removed, init_errors,
             sync_seen, init_seen,
             notify_seen>>

(***************************************************************************)
(* Constants of the source.                                                *)
(***************************************************************************)
APPLESPI_PACKET_SIZE == 256

PACKET_KEYBOARD == 288

PACKET_TOUCHPAD == 544

PACKET_NOTHING == 53312

MAX_ROLLOVER == 6

MAX_FINGERS == 6

MAX_FINGER_ORIENTATION == 16384

APPLE_FLAG_FKEY == 1

\* linux/input-event-codes.h, as used in the tables and in applespi_got_data
KEY_F1 == 59

KEY_BRIGHTNESSDOWN == 224

KEY_GRAVE == 41

KEY_102ND == 86

KEY_FN == 464

Byte == 0..255

(***************************************************************************)
(* Bounds of the model.                                                    *)
(***************************************************************************)
\* applespi_set_leds calls in one behaviour
MaxLedRequests == 4

\* the largest value written to the module parameter fnmode (unsigned int)
MaxFnMode == 3

\* the largest value of the packet's fn_pressed byte given to
\* applespi_code_to_key taken alone
MaxFnPressed == 2

\* leading scancode slots of a keyboard packet that may hold a key (the
\* full frame SixKeys aside)
MaxDown == 2

\* places on the touchpad a finger can be down at (the two leading entries
\* of a touchpad packet's fingers array may hold a finger)
MaxPlaces == 3

(***************************************************************************)
(* Bit arithmetic on naturals.                                             *)
(***************************************************************************)
RECURSIVE BitXor(_, _)
BitXor(a, b) ==
    IF a = 0 THEN b
    ELSE IF b = 0 THEN a
    ELSE (((a % 2) + (b % 2)) % 2) + (2 * BitXor(a \div 2, b \div 2))

\* One bit of the reflected CRC-16 (polynomial 0xA001).
Crc16Shift(crc) ==
    IF crc % 2 = 1 THEN BitXor(crc \div 2, 40961) ELSE crc \div 2

RECURSIVE Crc16Bits(_, _)
Crc16Bits(crc, n) ==
    IF n = 0 THEN crc ELSE Crc16Bits(Crc16Shift(crc), n - 1)

\* crc16_table of the kernel's lib/crc16.c: entry i is i shifted out bitwise.
Crc16Table == [i \in 0..255 |-> Crc16Bits(i, 8)]

\* crc16_byte: (crc >> 8) ^ crc16_table[(crc ^ data) & 0xff]
Crc16Byte(crc, b) == BitXor(crc \div 256, Crc16Table[BitXor(crc, b) % 256])

\* u16 crc16(u16 crc, u8 const *buffer, size_t len) over buf[from .. from+len-1].
\* The crc after each byte is bound (c) before the next byte is taken.
RECURSIVE crc16(_, _, _, _)
crc16(crc, buf, from, len) ==
    IF len = 0 THEN crc
    ELSE CHOOSE r \in {crc16(c, buf, from + 1, len - 1) :
                          c \in {Crc16Byte(crc, buf[from])}} : TRUE

(***************************************************************************)
(* The command templates.                                                  *)
(***************************************************************************)
\* applespi_init_commands[0]
applespi_init_command ==
    [i \in 0..(APPLESPI_PACKET_SIZE - 1) |->
        CASE i = 0 -> 64 [] i = 1 -> 2 [] i = 6 -> 12 [] i = 8 -> 82
          [] i = 9 -> 2 [] i = 12 -> 2 [] i = 14 -> 2 [] i = 16 -> 2
          [] i = 17 -> 1 [] i = 18 -> 123 [] i = 19 -> 17
          [] i = 254 -> 35 [] i = 255 -> 171 [] OTHER -> 0]

applespi_caps_lock_led_cmd ==
    [i \in 0..(APPLESPI_PACKET_SIZE - 1) |->
        CASE i = 0 -> 64 [] i = 1 -> 1 [] i = 6 -> 12 [] i = 8 -> 81
          [] i = 9 -> 1 [] i = 12 -> 2 [] i = 14 -> 2 [] i = 16 -> 1
          [] i = 254 -> 102 [] i = 255 -> 106 [] OTHER -> 0]

(***************************************************************************)
(* The LED command queue.                                                  *)
(***************************************************************************)
\* What spi_async can return: 0, or a negative errno.
SpiAsyncResults == {0, -22}

\* the LED command with the CRC of the template, taken before bytes 11 and
\* 17 are set
LedCommandBuffer_crc_first(cntr, on) ==
    LET crc == crc16(0, applespi_caps_lock_led_cmd, 8, 10)
    IN  [applespi_caps_lock_led_cmd EXCEPT
            ![11] = cntr % 256,
            ![17] = IF on THEN 2 ELSE 0,
            ![18] = crc % 256,
            ![19] = crc \div 256]

\* the LED command with the whole counter in byte 11
LedCommandBuffer_counter_unmasked(cntr, on) ==
    LET b1  == [applespi_caps_lock_led_cmd EXCEPT
                   ![11] = cntr,
                   ![17] = IF on THEN 2 ELSE 0]
        crc == crc16(0, b1, 8, 10)
    IN  [b1 EXCEPT ![18] = crc % 256, ![19] = crc \div 256]

\* "build led command buffer": the template with bytes 11, 17, 18, 19 set.
LedCommandBuffer(cntr, on) ==
    LET b1  == [applespi_caps_lock_led_cmd EXCEPT
                   ![11] = cntr % 256,
                   ![17] = IF on THEN 2 ELSE 0]
        crc == crc16(0, b1, 8, 10)
    IN  [b1 EXCEPT ![18] = crc % 256, ![19] = crc \div 256]

\* led_msg_lock released before the command is handed to spi_async
LockAtSend_released(by) == FALSE

\* led_msg_lock as applespi_send_leds_cmd finds it: applespi_set_leds and
\* applespi_async_write_complete both call it between spin_lock_irqsave and
\* spin_unlock_irqrestore, and it does not touch the lock.
LockAtSend(by) == by \in {"request", "complete"}

\* applespi_send_leds_cmd past its early return: record the value as sent,
\* build the command and hand it to spi_async, whose result is sts.
\* led_msg_cntr is a 32-bit unsigned of which only the low byte is used; it
\* wraps at a multiple of 256, far beyond the requests of one behaviour.
LedBuildAndSend(want, queued, inflight, sts, by) ==
    LET buf == LedCommandBuffer(led_msg_cntr, want) IN
    /\ have_cl_led_on' = want
    /\ led_msg_cntr' = led_msg_cntr + 1
    /\ tx_buffer' = buf
    /\ led_log' = Append(led_log, [on |-> (buf[17] = 2), seq |-> buf[11],
                                   accepted |-> (sts = 0), by |-> by,
                                   queued_before |-> queued,
                                   locked |-> LockAtSend(by),
                                   after |-> flight_reqs])
    /\ led_msg_queued' = IF sts = 0 THEN TRUE ELSE queued
    /\ wr_inflight' = IF sts = 0 THEN inflight + 1 ELSE inflight

\* The early return of applespi_send_leds_cmd.
LedNoSend(queued, inflight) ==
    /\ led_msg_queued' = queued
    /\ wr_inflight' = inflight
    /\ UNCHANGED <<have_cl_led_on, led_msg_cntr, tx_buffer, led_log>>

\* applespi_send_leds_cmd without the test of led_msg_queued.
applespi_send_leds_cmd_no_queued_check(want, queued, inflight, sts, by) ==
    IF want = have_cl_led_on
    THEN LedNoSend(queued, inflight)
    ELSE LedBuildAndSend(want, queued, inflight, sts, by)

\* applespi_send_leds_cmd without the test of want against have.
applespi_send_leds_cmd_no_value_check(want, queued, inflight, sts, by) ==
    IF queued
    THEN LedNoSend(queued, inflight)
    ELSE LedBuildAndSend(want, queued, inflight, sts, by)

\* applespi_send_leds_cmd, called with the lock held.  want and queued are
\* the fields as the caller left them; inflight is the SPI core's count.
applespi_send_leds_cmd(want, queued, inflight, sts, by) ==
    IF want = have_cl_led_on \/ queued
    THEN LedNoSend(queued, inflight)
    ELSE LedBuildAndSend(want, queued, inflight, sts, by)

\* applespi_set_leds(applespi, capslock_on), the whole locked region: it
\* takes led_msg_lock, which is free between handlers, and gives it back.
applespi_set_leds(capslock_on, sts) ==
    /\ led_requests < MaxLedRequests
    /\ ~led_msg_lock
    /\ led_msg_lock' = FALSE
    /\ want_cl_led_on' = capslock_on
    /\ applespi_send_leds_cmd(capslock_on, led_msg_queued, wr_inflight, sts,
                              "request")
    /\ led_requests' = led_requests + 1
    /\ flight_reqs' = IF led_msg_queued THEN Append(flight_reqs, capslock_on)
                      ELSE flight_reqs
    /\ UNCHANGED <<kbdVars, tpVars, paramVars, ckVars, devVars>>

\* applespi_async_write_complete that only clears the flag.
applespi_async_write_complete_no_resend(sts) ==
    /\ wr_inflight > 0
    /\ ~led_msg_lock
    /\ led_msg_lock' = FALSE
    /\ LedNoSend(FALSE, wr_inflight - 1)
    /\ flight_reqs' = <<>>
    /\ UNCHANGED <<want_cl_led_on, led_requests>>
    /\ UNCHANGED <<kbdVars, tpVars, paramVars, ckVars, devVars>>

\* applespi_async_write_complete: the SPI core completes one queued wr_m.
\* The status check before the lock only logs.
applespi_async_write_complete(sts) ==
    /\ wr_inflight > 0
    /\ ~led_msg_lock
    /\ led_msg_lock' = FALSE
    /\ applespi_send_leds_cmd(want_cl_led_on, FALSE, wr_inflight - 1, sts,
                              "complete")
    /\ flight_reqs' = <<>>
    /\ UNCHANGED <<want_cl_led_on, led_requests>>
    /\ UNCHANGED <<kbdVars, tpVars, paramVars, ckVars, devVars>>

SetLeds == \E on \in BOOLEAN, sts \in SpiAsyncResults : applespi_set_leds(on, sts)

WriteComplete == \E sts \in SpiAsyncResults : applespi_async_write_complete(sts)

(***************************************************************************)
(* The SPI settings and the synchronous write exchange.                    *)
(***************************************************************************)
\* applespi_spi_settings_map: the names of the _DSM items, one per field of
\* struct spi_settings
applespi_spi_settings_map ==
    {"spiSclkPeriod", "spiWordSize", "spiBitOrder", "spiSPO", "spiSPH",
     "spiCSDelay", "resetA2RUsec", "resetRecUsec"}

\* struct spi_settings as devm_kzalloc leaves it
NoSettings == [n \in applespi_spi_settings_map |-> 0]

\* the value the _DSM package gives an item it holds
DsmValue(name) ==
    CASE name = "spiSclkPeriod" -> 125
      [] name = "spiWordSize" -> 8
      [] name = "spiBitOrder" -> 1
      [] name = "spiCSDelay" -> 10
      [] name = "resetA2RUsec" -> 10
      [] name = "resetRecUsec" -> 10
      [] OTHER -> 0

\* What acpi_evaluate_dsm can return: nothing, an object that is no
\* package, or a package of well-formed items with the names given.
DsmResult(type, names) == [type |-> type, names |-> names]

DsmResults ==
    {DsmResult("null", {}), DsmResult("integer", {}),
     DsmResult("package", applespi_spi_settings_map),
     DsmResult("package", applespi_spi_settings_map \ {"spiCSDelay"}),
     DsmResult("package",
               (applespi_spi_settings_map \ {"resetA2RUsec"}) \cup {"spiFoo"})}

\* applespi_get_spi_settings: -ENODEV without a package; otherwise every
\* item with a known name is stored in its field, the others are skipped,
\* and spi_cs_delay is multiplied by 10
applespi_get_spi_settings(settings, dsm) ==
    IF dsm.type # "package"
    THEN [ret |-> -19, settings |-> settings]
    ELSE LET stored == [n \in applespi_spi_settings_map |->
                           IF n \in dsm.names THEN DsmValue(n)
                           ELSE settings[n]]
         IN  [ret |-> 0,
              settings |-> [stored EXCEPT !["spiCSDelay"] = @ * 10]]

\* applespi_enable_spi: 0 when SIST says SPI is enabled or SIEN(1)
\* succeeds, -ENODEV when SIEN fails
applespi_enable_spi(sist, sien) ==
    IF sist THEN 0 ELSE IF sien THEN 0 ELSE -19

\* sts_ok of applespi_check_write_status
sts_ok == <<172, 39, 104, 213>>

\* what the status transfer can leave in tx_status
StatusesRead == {sts_ok, <<0, 0, 0, 0>>}

\* What spi_sync can do with the three transfers of the write exchange:
\* all of them (256 + 4 + 256 bytes), or fail with -EIO.
SpiSyncOutcomes ==
    {[status |-> 0, actual_length |-> 516], [status |-> -5, actual_length |-> 0]}

\* applespi_sync: the status of spi_sync, or the length transferred
applespi_sync(xfer) ==
    IF xfer.status = 0 THEN xfer.actual_length ELSE xfer.status

\* applespi_check_write_status: the warning it logs
applespi_check_write_status(sts, status) ==
    IF sts < 0 THEN "transfer"
    ELSE IF status # sts_ok THEN "status"
    ELSE "none"

\* applespi_sync_write_and_response: what it returns, given what spi_sync
\* did and what tx_status holds afterwards
applespi_sync_write_and_response(xfer, status) == applespi_sync(xfer)

(***************************************************************************)
(* Initial values: devm_kzalloc zeroes struct applespi_data, and probe's   *)
(* applespi_init leaves the mode-switch command in tx_buffer.              *)
(***************************************************************************)
InitLedVars ==
    /\ tx_buffer = applespi_init_command
    /\ want_cl_led_on = FALSE
    /\ have_cl_led_on = FALSE
    /\ led_msg_cntr = 0
    /\ led_msg_queued = FALSE
    /\ led_msg_lock = FALSE
    /\ wr_inflight = 0
    /\ led_log = <<>>
    /\ led_requests = 0
    /\ flight_reqs = <<>>

InitKbdVars ==
    /\ rx_buffer = [packet_type |-> PACKET_NOTHING, modifiers |-> 0,
                    keys_pressed |-> [i \in 0..(MAX_ROLLOVER - 1) |-> 0],
                    fn_pressed |-> 0]
    /\ rd_m_status = 0
    /\ last_keys_pressed = [i \in 0..(MAX_ROLLOVER - 1) |-> 0]
    /\ last_keys_fn_pressed = [i \in 0..(MAX_ROLLOVER - 1) |-> 0]
    /\ last_fn_pressed = 0
    /\ kbd_events = <<>>
    /\ oob_index = FALSE
    /\ press_fn = <<>>
    /\ keys_down = {}
    /\ fn_history = [frame |-> 0, key |-> 0]

\* struct applespi_tp_info { x_min, x_max, y_min, y_max }
\* the idle packet the flush read and the response of the mode switch leave
\* in rx_buffer
IdlePacket ==
    [packet_type |-> PACKET_NOTHING, modifiers |-> 0,
     keys_pressed |-> [i \in 0..(MAX_ROLLOVER - 1) |-> 0],
     fn_pressed |-> 0]

\* the device before applespi_probe
InitDevVars ==
    /\ spi_settings = NoSettings
    /\ tx_status = <<0, 0, 0, 0>>
    /\ gpe_handler = FALSE
    /\ gpe_enabled = FALSE
    /\ gpe_masked = FALSE
    /\ rd_inflight = FALSE
    /\ probe_ret = <<>>
    /\ suspended = FALSE
    /\ removed = FALSE
    /\ init_errors = {}
    /\ sync_seen = <<>>
    /\ init_seen = <<>>
    /\ notify_seen = <<>>

\* the device after an applespi_probe that met no error and returned 0
InitDevBound ==
    /\ spi_settings =
           applespi_get_spi_settings(
               NoSettings,
               DsmResult("package", applespi_spi_settings_map)).settings
    /\ tx_status = sts_ok
    /\ gpe_handler = TRUE
    /\ gpe_enabled = TRUE
    /\ gpe_masked = FALSE
    /\ rd_inflight = FALSE
    /\ probe_ret = <<0>>
    /\ suspended = FALSE
    /\ removed = FALSE
    /\ init_errors = {}
    /\ sync_seen = <<[result |-> 516, status |-> sts_ok, ret |-> 516,
                      warned |-> "none"]>>
    /\ init_seen = <<[by |-> "probe", armed |-> FALSE, inflight |-> FALSE]>>
    /\ notify_seen = <<>>

TpInfo(x_min, x_max, y_min, y_max) ==
    [x_min |-> x_min, x_max |-> x_max, y_min |-> y_min, y_max |-> y_max]

applespi_macbookpro131_info == TpInfo(-6243, 6749, -170, 7685)

applespi_macbookpro133_info == TpInfo(-7456, 7976, -163, 9283)

applespi_default_info == TpInfo(-4828, 5345, -203, 6803)

\* the driver_data of applespi_touchpad_infos
applespi_touchpad_infos ==
    {applespi_macbookpro131_info, applespi_macbookpro133_info,
     applespi_default_info}

Fingers == 0..(MAX_FINGERS - 1)

\* a slot of the device that is not in use
MtUnused == [active |-> FALSE, x |-> 0, y |-> 0]

\* no entry of the arrays filled yet and the slots as input_mt_init_slots
\* leaves them, on the machine info picks
InitTpVarsOn(info) ==
    /\ tp_info = info
    /\ pos = <<>>
    /\ slots = <<>>
    /\ mt_slots = [s \in Fingers |-> MtUnused]
    /\ tp_events = <<>>
    /\ tp_released = {}

\* dmi_first_match(applespi_touchpad_infos) on a machine that only the last,
\* generic entry matches
InitTpVars ==
    /\ applespi_default_info \in applespi_touchpad_infos
    /\ InitTpVarsOn(applespi_default_info)

InitParams ==
    /\ fnmode = 1
    /\ iso_layout = 0

InitCk ==
    /\ ck_in = [code |-> 0, fn_pressed |-> 0, oob |-> 0]
    /\ ck_out = <<>>

InitLed ==
    /\ InitLedVars
    /\ InitKbdVars
    /\ InitTpVars
    /\ InitParams
    /\ InitCk
    /\ InitDevBound

NextLed == SetLeds \/ WriteComplete

\* A queued message is completed by the SPI core: weak fairness of the
\* completion callback.
SpecLed == InitLed /\ [][NextLed]_vars /\ WF_vars(WriteComplete)

\* The numbers of commands built so far from which SpecLedWrap starts:
\* none, and enough for led_msg_cntr & 0xff to wrap within a few requests.
CounterStarts == {0, 254, 255}

\* The LED queue idle after cntr commands were built and completed: every
\* command built flips have_cl_led_on, and the last one is in tx_buffer.
InitLedAt(cntr) ==
    /\ tx_buffer = IF cntr = 0 THEN applespi_init_command
                   ELSE LedCommandBuffer(cntr - 1, cntr % 2 = 1)
    /\ want_cl_led_on = (cntr % 2 = 1)
    /\ have_cl_led_on = (cntr % 2 = 1)
    /\ led_msg_cntr = cntr
    /\ led_msg_queued = FALSE
    /\ led_msg_lock = FALSE
    /\ wr_inflight = 0
    /\ led_log = <<>>
    /\ led_requests = 0
    /\ flight_reqs = <<>>

InitLedWrap ==
    /\ \E cntr \in CounterStarts : InitLedAt(cntr)
    /\ InitKbdVars
    /\ InitTpVars
    /\ InitParams
    /\ InitCk
    /\ InitDevBound

\* SpecLed started after any of CounterStarts commands
SpecLedWrap == InitLedWrap /\ [][NextLed]_vars /\ WF_vars(WriteComplete)

(***************************************************************************)
(* Key translation.                                                        *)
(***************************************************************************)
\* applespi_scancodes[], entry code at position code + 1
applespi_scancodes ==
    << 0, 0, 0, 0,
       30, 48, 46, 32, 18, 33, 34, 35, 23, 36,
       37, 38, 50, 49, 24, 25, 16, 19, 31, 20,
       22, 47, 17, 45, 21, 44,
       2, 3, 4, 5, 6, 7, 8, 9, 10, 11,
       28, 1, 14, 15, 57, 12,
       13, 26, 27, 43, 0,
       39, 40, KEY_GRAVE, 51, 52, 53,
       58,
       KEY_F1, 60, 61, 62, 63, 64, 65, 66, 67,
       68, 87, 88, 0, 0, 0, 0, 0, 0, 0, 0, 0,
       106, 105, 108, 103,
       0, 0, 0, 0, 0, 0, 0, 0, 0, 0, 0, 0, 0, 0, 0, 0, 0, KEY_102ND >>

\* ARRAY_SIZE(applespi_scancodes)
ScancodesSize == Len(applespi_scancodes)

\* applespi_controlcodes[], entry i at position i + 1
applespi_controlcodes == << 29, 42, 56, 125, 0, 54, 100, 126 >>

Trans(from, to, flags) == [from |-> from, to |-> to, flags |-> flags]

\* applespi_fn_codes[], in order, with its terminating entry
applespi_fn_codes ==
    << Trans(14, 111, 0),
       Trans(28, 110, 0),
       Trans(KEY_F1, KEY_BRIGHTNESSDOWN, APPLE_FLAG_FKEY),
       Trans(60, 225, APPLE_FLAG_FKEY),
       Trans(61, 120, APPLE_FLAG_FKEY),
       Trans(62, 204, APPLE_FLAG_FKEY),
       Trans(63, 229, APPLE_FLAG_FKEY),
       Trans(64, 230, APPLE_FLAG_FKEY),
       Trans(65, 165, APPLE_FLAG_FKEY),
       Trans(66, 164, APPLE_FLAG_FKEY),
       Trans(67, 163, APPLE_FLAG_FKEY),
       Trans(68, 113, APPLE_FLAG_FKEY),
       Trans(87, 114, APPLE_FLAG_FKEY),
       Trans(88, 115, APPLE_FLAG_FKEY),
       Trans(106, 107, 0),
       Trans(105, 102, 0),
       Trans(108, 109, 0),
       Trans(103, 104, 0),
       Trans(0, 0, 0) >>

\* apple_iso_keyboard[], with its terminating entry
apple_iso_keyboard ==
    << Trans(KEY_GRAVE, KEY_102ND, 0),
       Trans(KEY_102ND, KEY_GRAVE, 0),
       Trans(0, 0, 0) >>

\* the NULL that applespi_find_translation returns
NoTranslation == Trans(0, 0, 0)

\* applespi_find_translation(table, key), scanning from entry i
RECURSIVE FindTranslationFrom(_, _, _)
FindTranslationFrom(table, key, i) ==
    IF table[i].from = 0 THEN NoTranslation
    ELSE IF table[i].from = key THEN table[i]
    ELSE FindTranslationFrom(table, key, i + 1)

applespi_find_translation(table, key) == FindTranslationFrom(table, key, 1)

\* applespi_scancodes[code].  The table holds ScancodesSize entries and code
\* is a u8: an index at or beyond the size reads whatever byte follows the
\* table, oob.
ScancodeAt(code, oob) ==
    IF code < ScancodesSize THEN applespi_scancodes[code + 1] ELSE oob

\* do_translate with the two tests on fnmode exchanged.
DoTranslate_swapped(mode, trans, fn_pressed) ==
    IF trans.flags % 2 = APPLE_FLAG_FKEY
    THEN (mode = 2 /\ fn_pressed = 0) \/ (mode = 1 /\ fn_pressed # 0)
    ELSE fn_pressed # 0

\* do_translate of applespi_code_to_key, for a translation found
DoTranslate(mode, trans, fn_pressed) ==
    IF trans.flags % 2 = APPLE_FLAG_FKEY
    THEN (mode = 2 /\ fn_pressed # 0) \/ (mode = 1 /\ fn_pressed = 0)
    ELSE fn_pressed # 0

\* the translation block entered whatever fnmode is.
FnTranslate_no_mode_test(mode, key, fn_pressed) ==
    LET trans == applespi_find_translation(applespi_fn_codes, key)
    IN  IF trans # NoTranslation /\ DoTranslate(mode, trans, fn_pressed)
        THEN trans.to
        ELSE key

\* the "if (fnmode)" block of applespi_code_to_key
FnTranslate(mode, key, fn_pressed) ==
    IF mode = 0 THEN key
    ELSE LET trans == applespi_find_translation(applespi_fn_codes, key)
         IN  IF trans # NoTranslation /\ DoTranslate(mode, trans, fn_pressed)
             THEN trans.to
             ELSE key

\* the ISO table with its second row missing: grave becomes 102nd, 102nd
\* stays.
IsoTranslate_one_way(iso, key) ==
    IF iso # 0 /\ key = KEY_GRAVE THEN KEY_102ND ELSE key

\* the "if (iso_layout)" block of applespi_code_to_key
IsoTranslate(iso, key) ==
    IF iso = 0 THEN key
    ELSE LET trans == applespi_find_translation(apple_iso_keyboard, key)
         IN  IF trans # NoTranslation THEN trans.to ELSE key

\* applespi_code_to_key(code, fn_pressed) under the parameters mode
\* (fnmode) and iso (iso_layout)
CodeToKey(mode, iso, code, fn_pressed, oob) ==
    IsoTranslate(iso, FnTranslate(mode, ScancodeAt(code, oob), fn_pressed))

applespi_code_to_key(code, fn_pressed, oob) ==
    CodeToKey(fnmode, iso_layout, code, fn_pressed, oob)

(***************************************************************************)
(* applespi_code_to_key taken alone: the module parameters hold any value  *)
(* written to them (module_param ..., 0644) and the function is applied    *)
(* once to any scancode byte and Fn byte.                                  *)
(***************************************************************************)
FnModes == 0..MaxFnMode

IsoLayouts == {0, 1}

\* bytes that may follow the table in memory
OobValues == {0, 30, KEY_F1}

\* ck_out before the call; after it, the one result
NotCalled == <<>>

CallCodeToKey ==
    /\ ck_out = NotCalled
    /\ ck_out' = <<applespi_code_to_key(ck_in.code, ck_in.fn_pressed, ck_in.oob)>>
    /\ UNCHANGED <<ck_in, paramVars, kbdVars, tpVars, ledVars, devVars>>

InitKey ==
    /\ InitLedVars
    /\ InitKbdVars
    /\ InitTpVars
    /\ InitDevBound
    /\ fnmode \in FnModes
    /\ iso_layout \in IsoLayouts
    /\ ck_in \in [code : Byte, fn_pressed : 0..MaxFnPressed, oob : OobValues]
    /\ ck_out = NotCalled

NextKey == CallCodeToKey

SpecKey == InitKey /\ [][NextKey]_vars

(***************************************************************************)
(* The packet handler: applespi_async_read_complete and applespi_got_data. *)
(* A packet is held decoded, as the fields of struct keyboard_protocol the *)
(* handler reads.                                                          *)
(***************************************************************************)
Slots == 0..(MAX_ROLLOVER - 1)

\* input_report_key(keyboard_input_dev, key, value), with the loop that made
\* the call (path), its index (slot) and the scancode byte it worked from
KeyEvent(path, slot, code, key, value) ==
    [path |-> path, slot |-> slot, code |-> code, key |-> key, value |-> value]

\* the members of S in ascending order
RECURSIVE Ascending(_)
Ascending(S) ==
    IF S = {} THEN <<>>
    ELSE LET m == CHOOSE x \in S : \A y \in S : x <= y
         IN  <<m>> \o Ascending(S \ {m})

\* the scancodes a frame can press: the press loop's test alone
Pressable(code) == code < ScancodesSize /\ code > 0

\* slots of the history whose scancode is in none of the frame's slots
\* (still_pressed stays false)
ReleaseSlots(frame) ==
    {i \in Slots : \A j \in Slots : last_keys_pressed[i] # frame.keys_pressed[j]}

\* the press loop without the test against the table size
PressSlots_unbounded(frame) ==
    {i \in Slots : frame.keys_pressed[i] > 0}

\* slots of the frame that pass the press loop's test
PressSlots(frame) ==
    {i \in Slots : Pressable(frame.keys_pressed[i])}

\* the release loop reads applespi_scancodes at the history's byte, untested
ReleaseReadsBeyond(frame) ==
    \E i \in ReleaseSlots(frame) : last_keys_pressed[i] >= ScancodesSize

ReleaseEvents(frame, oob) ==
    LET order == Ascending(ReleaseSlots(frame))
    IN  [n \in DOMAIN order |->
            KeyEvent("release", order[n], last_keys_pressed[order[n]],
                     applespi_code_to_key(last_keys_pressed[order[n]],
                                          last_keys_fn_pressed[order[n]], oob),
                     0)]

PressEvents(frame) ==
    LET order == Ascending(PressSlots(frame))
    IN  [n \in DOMAIN order |->
            KeyEvent("press", order[n], frame.keys_pressed[order[n]],
                     applespi_code_to_key(frame.keys_pressed[order[n]],
                                          frame.fn_pressed, 0),
                     1)]

test_bit(nr, word) == (word \div (2 ^ nr)) % 2 = 1

ModifierEvents(frame) ==
    [n \in 1..8 |->
        KeyEvent("mod", n - 1, 0, applespi_controlcodes[n],
                 IF test_bit(n - 1, frame.modifiers) THEN 1 ELSE 0)]

\* the Fn check comparing the bytes themselves
FnEvents_bytes(frame) ==
    IF frame.fn_pressed # last_fn_pressed
    THEN <<KeyEvent("fn", 0, 0, KEY_FN, IF frame.fn_pressed # 0 THEN 1 ELSE 0)>>
    ELSE <<>>

FnEvents(frame) ==
    IF frame.fn_pressed # 0 /\ last_fn_pressed = 0
    THEN <<KeyEvent("fn", 0, 0, KEY_FN, 1)>>
    ELSE IF frame.fn_pressed = 0 /\ last_fn_pressed # 0
    THEN <<KeyEvent("fn", 0, 0, KEY_FN, 0)>>
    ELSE <<>>

\* the keys down after the frame, each with the Fn byte of the frame in which
\* it came down
PressFnAfter(frame) ==
    LET down == {frame.keys_pressed[i] : i \in PressSlots(frame)}
    IN  [c \in down |-> IF c \in DOMAIN press_fn THEN press_fn[c]
                        ELSE frame.fn_pressed]

\* the key codes down after the reports ev of a frame: the release loop's
\* reports take theirs out, then the press loop's reports put theirs in
KeysDownAfter(ev) ==
    (keys_down \ {ev[n].key : n \in {k \in DOMAIN ev : ev[k].path = "release"}})
        \cup {ev[n].key : n \in {k \in DOMAIN ev : ev[k].path = "press"}}

\* the Fn byte of the frame, and the value of the KEY_FN report if there is
\* one among its reports ev
FnHistoryAfter(frame, ev) ==
    [frame |-> frame.fn_pressed,
     key   |-> IF \E n \in DOMAIN ev : ev[n].path = "fn"
               THEN ev[CHOOSE n \in DOMAIN ev : ev[n].path = "fn"].value
               ELSE fn_history.key]

(***************************************************************************)
(* The touchpad branch: report_tp_state and report_finger_data, with the   *)
(* input core's input_mt_assign_slots (drivers/input/input-mt.c) and       *)
(* input_mt_sync_frame as they act on the slots of touchpad_input_dev.     *)
(* A touchpad packet is held as the fingers array of struct                *)
(* touchpad_protocol, each finger as the raw __le16 fields the driver      *)
(* reads.                                                                  *)
(***************************************************************************)
\* convert 16-bit little endian to signed integer
raw2int(x) == IF x >= 32768 THEN x - 65536 ELSE x

\* C's int division by 2, which truncates toward zero
CDiv2(a) == IF a >= 0 THEN a \div 2 ELSE -((-a) \div 2)

\* indices of t->fingers the filter loop of report_tp_state keeps, in order
ActiveSamples(t) ==
    Ascending({i \in Fingers : raw2int(t.fingers[i].touch_major) # 0})

\* applespi->pos[0 .. n-1] after the filter loop
PosAfter(t) ==
    LET act == ActiveSamples(t)
    IN  [n \in 0..(Len(act) - 1) |->
            [x |-> raw2int(t.fingers[act[n + 1]].abs_x),
             y |-> tp_info.y_min + tp_info.y_max
                       - raw2int(t.fingers[act[n + 1]].abs_y)]]

\* slots of the device for which input_mt_is_active holds, and the others
MtActive == Ascending({s \in Fingers : mt_slots[s].active})

MtFree == Ascending({s \in Fingers : ~mt_slots[s].active})

\* input_mt_set_matrix: one row per active slot, one column per position,
\* the squared distance less mu; the rows one after the other
input_mt_set_matrix(p, num_pos, mu) ==
    [k \in 1..(Len(MtActive) * num_pos) |->
        LET s  == MtActive[((k - 1) \div num_pos) + 1]
            j  == (k - 1) % num_pos
            dx == mt_slots[s].x - p[j].x
            dy == mt_slots[s].y - p[j].y
        IN  (dx * dx) + (dy * dy) - mu]

\* the offsets begin, begin + step, ... below end
Line(begin, step, end) ==
    [k \in 1..((end - begin) \div step) |-> begin + ((k - 1) * step)]

\* the scan of adjust_dual from the k-th element: smallest f and next s
RECURSIVE ScanLine(_, _, _, _, _)
ScanLine(w, line, k, f, s) ==
    IF k > Len(line) THEN <<f, s>>
    ELSE LET v == w[line[k] + 1]
         IN  IF v < f THEN ScanLine(w, line, k + 1, v, f)
             ELSE IF v < s THEN ScanLine(w, line, k + 1, f, v)
             ELSE ScanLine(w, line, k + 1, f, s)

\* adjust_dual(begin, step, end, eq, mu): the matrix after it and its result
adjust_dual(w, line, eq, mu) ==
    IF Len(line) = 0 THEN [w |-> w, ret |-> 0]
    ELSE LET f0 == w[line[1] + 1]
             s0 == IF Len(line) = 1 THEN f0 + 1 ELSE w[line[2] + 1]
             fs == ScanLine(w, line, 2, f0, s0)
             f  == fs[1]
             s  == fs[2]
             c0 == CDiv2(f + s + 1)
             c  == IF s < 0 /\ mu <= 0 THEN c0 * 2 ELSE c0
         IN  IF c0 = 0 \/ (c0 > mu /\ (~eq \/ mu > 0))
             THEN [w |-> w, ret |-> 0]
             ELSE [w   |-> [k \in DOMAIN w |->
                               IF \E n \in DOMAIN line : line[n] + 1 = k
                               THEN w[k] - c ELSE w[k]],
                   ret |-> IF (c < s /\ s <= 0) \/ (f >= 0 /\ f < c)
                           THEN 1 ELSE 0]

\* find_reduced_matrix: its first inner loop from column i on
RECURSIVE ColumnPasses(_, _, _, _, _)
ColumnPasses(w, i, nr, nc, mu) ==
    IF i >= nr THEN w
    ELSE CHOOSE r \in
             {ColumnPasses(w2, i + 1, nr, nc, mu) :
                 w2 \in {adjust_dual(w, Line(i, nr, i + (nr * nc)),
                                     nr <= nc, mu).w}} : TRUE

\* find_reduced_matrix: its second inner loop from row a on, with sum
RECURSIVE RowPasses(_, _, _, _, _, _)
RowPasses(w, a, nr, nc, mu, sum) ==
    IF a >= nc THEN [w |-> w, sum |-> sum]
    ELSE CHOOSE r \in
             {RowPasses(d.w, a + 1, nr, nc, mu, sum + d.ret) :
                 d \in {adjust_dual(w, Line(a * nr, 1, (a * nr) + nr),
                                    nc <= nr, mu)}} : TRUE

\* find_reduced_matrix(w, nr, nc, nrc, mu) from iteration k on
RECURSIVE find_reduced_matrix(_, _, _, _, _)
find_reduced_matrix(w, k, nr, nc, mu) ==
    IF k >= nr * nc THEN w
    ELSE CHOOSE r \in
             {IF d.sum = 0 THEN d.w
              ELSE find_reduced_matrix(d.w, k + 1, nr, nc, mu) :
                 d \in {RowPasses(c, 0, nr, nc, mu, 0) :
                            c \in {ColumnPasses(w, 0, nr, nc, mu)}}} : TRUE

\* the smallest member of a non-empty set of integers
Lowest(S) == CHOOSE x \in S : \A y \in S : x <= y

\* input_mt_set_slots, first loop from the a-th active slot on: the slot
\* goes to the first position whose entry in its row is negative
RECURSIVE SetActive(_, _, _, _)
SetActive(sl, a, w, num_pos) ==
    IF a > Len(MtActive) THEN sl
    ELSE LET neg == {j \in 0..(num_pos - 1) : w[((a - 1) * num_pos) + j + 1] < 0}
         IN  CHOOSE r \in
                 {SetActive(sl2, a + 1, w, num_pos) :
                     sl2 \in {IF neg = {} THEN sl
                              ELSE [sl EXCEPT ![Lowest(neg)] = MtActive[a]]}} :
                 TRUE

\* input_mt_set_slots, second loop from the k-th free slot on: the slot goes
\* to the first position still at -1
RECURSIVE SetFree(_, _, _)
SetFree(sl, k, num_pos) ==
    IF k > Len(MtFree) THEN sl
    ELSE LET open == {j \in 0..(num_pos - 1) : sl[j] < 0}
         IN  CHOOSE r \in
                 {SetFree(sl2, k + 1, num_pos) :
                     sl2 \in {IF open = {} THEN sl
                              ELSE [sl EXCEPT ![Lowest(open)] = MtFree[k]]}} :
                 TRUE

input_mt_set_slots(w, num_pos) ==
    CHOOSE r \in
        {SetFree(matched, 1, num_pos) :
            matched \in {SetActive([j \in 0..(num_pos - 1) |-> -1],
                                   1, w, num_pos)}} : TRUE

\* input_mt_assign_slots that gives every position the lowest free slot
input_mt_assign_slots_unmatched(p, num_pos, dmax) ==
    SetFree([j \in 0..(num_pos - 1) |-> -1], 1, num_pos)

\* input_mt_assign_slots(input, applespi->slots, p, num_pos, dmax): the
\* slots array after it
input_mt_assign_slots(p, num_pos, dmax) ==
    IF num_pos < 1 THEN <<>>
    ELSE LET mu == 2 * dmax * dmax
         IN  CHOOSE r \in
                 {input_mt_set_slots(red, num_pos) :
                     red \in {find_reduced_matrix(
                                  input_mt_set_matrix(p, num_pos, mu),
                                  0, num_pos, Len(MtActive), mu)}} : TRUE

\* report_finger_data(input, slot, ps, f); pos_from and shape_from are the
\* indices in t->fingers that ps was computed from and that f is, and moved
\* is how far ps is from the position the input core held for the slot when
\* the frame arrived, if the slot was in use
report_finger_data(slot, ps, f, pos_from, shape_from, was) ==
    [slot        |-> slot,
     touch_major |-> raw2int(f.touch_major) * 2,
     touch_minor |-> raw2int(f.touch_minor) * 2,
     width_major |-> raw2int(f.tool_major) * 2,
     width_minor |-> raw2int(f.tool_minor) * 2,
     orientation |-> MAX_FINGER_ORIENTATION - raw2int(f.orientation),
     x           |-> ps.x,
     y           |-> ps.y,
     pos_from    |-> pos_from,
     shape_from  |-> shape_from,
     moved       |-> IF was.active
                     THEN <<ps.x - was.x, ps.y - was.y>>
                     ELSE <<>>]

\* report_tp_state(applespi, t).  input_mt_sync_frame drops the slots the
\* frame did not report (INPUT_MT_DROP_UNUSED); the BTN_LEFT report leaves
\* no state.  A dropped slot keeps no position: input_mt_set_matrix reads
\* the positions of the slots in use only, and a slot gets its position in
\* the frame that takes it in use.
report_tp_state(t) ==
    \E act \in {ActiveSamples(t)} :
    \E p \in {PosAfter(t)} :
    \E sl \in {input_mt_assign_slots(p, Len(act), 0)} :
        LET n == Len(act)
        IN  /\ pos' = p
            /\ slots' = sl
            /\ tp_events' =
                   [i \in 1..n |->
                       report_finger_data(sl[i - 1], p[i - 1],
                                          t.fingers[i - 1], act[i], i - 1,
                                          mt_slots[sl[i - 1]])]
            /\ mt_slots' =
                   [s \in Fingers |->
                       LET used == {i \in 0..(n - 1) : sl[i] = s}
                       IN  IF used = {}
                           THEN MtUnused
                           ELSE [active |-> TRUE,
                                 x |-> p[Lowest({-i : i \in used}) * (-1)].x,
                                 y |-> p[Lowest({-i : i \in used}) * (-1)].y]]
            /\ tp_released' =
                   {s \in Fingers :
                       mt_slots[s].active /\ \A i \in 0..(n - 1) : sl[i] # s}

\* nothing is reported to, or kept about, the touchpad
NoTouchpadReport ==
    /\ tp_events' = <<>>
    /\ tp_released' = {}
    /\ UNCHANGED <<tp_info, pos, slots, mt_slots>>

\* nothing is reported to, or kept about, the keyboard
NoKeyboardReport ==
    /\ kbd_events' = <<>>
    /\ oob_index' = FALSE
    /\ UNCHANGED <<last_keys_pressed, last_keys_fn_pressed, last_fn_pressed,
                   press_fn,
                   keys_down, fn_history>>

\* the PACKET_KEYBOARD branch of applespi_got_data
HandleKeyboard(frame, oob) ==
    /\ NoTouchpadReport
    /\ kbd_events' = ReleaseEvents(frame, oob) \o PressEvents(frame)
                        \o ModifierEvents(frame) \o FnEvents(frame)
    /\ last_keys_fn_pressed' =
           [i \in Slots |->
               IF i \in PressSlots(frame) THEN frame.fn_pressed
               ELSE IF i \in ReleaseSlots(frame) THEN 0
               ELSE last_keys_fn_pressed[i]]
    /\ last_fn_pressed' = frame.fn_pressed
    /\ last_keys_pressed' = frame.keys_pressed
    /\ oob_index' = ReleaseReadsBeyond(frame)
    /\ press_fn' = PressFnAfter(frame)
    /\ keys_down' = KeysDownAfter(kbd_events')
    /\ fn_history' = FnHistoryAfter(frame, kbd_events')

\* the branches of applespi_got_data that return without a report
HandleNothing ==
    /\ NoKeyboardReport
    /\ NoTouchpadReport

\* the PACKET_TOUCHPAD branch of applespi_got_data
HandleTouchpad(t) ==
    /\ report_tp_state(t)
    /\ tp_info' = tp_info
    /\ NoKeyboardReport

\* applespi_got_data that takes every tag other than the touchpad's and
\* PACKET_NOTHING for the keyboard's
applespi_got_data_keyboard_default(oob) ==
    IF rx_buffer'.packet_type = PACKET_NOTHING
    THEN HandleNothing
    ELSE IF rx_buffer'.packet_type = PACKET_TOUCHPAD
    THEN HandleTouchpad(rx_buffer')
    ELSE HandleKeyboard(rx_buffer', oob)

applespi_got_data(oob) ==
    IF rx_buffer'.packet_type = PACKET_KEYBOARD
    THEN HandleKeyboard(rx_buffer', oob)
    ELSE IF rx_buffer'.packet_type = PACKET_TOUCHPAD
    THEN HandleTouchpad(rx_buffer')
    ELSE HandleNothing

\* The read has filled rx_buffer with packet and ended with status.
\* acpi_finish_gpe(NULL, applespi->gpe): the GPE can fire again
acpi_finish_gpe == gpe_masked' = FALSE

\* applespi_async_read_complete: the SPI core completes rd_m
applespi_async_read_complete(status, packet, oob) ==
    /\ rd_m_status' = status
    /\ rx_buffer' = packet
    /\ IF status < 0 THEN HandleNothing ELSE applespi_got_data(oob)
    /\ acpi_finish_gpe
    /\ rd_inflight' = FALSE
    /\ UNCHANGED <<spi_settings, tx_status, gpe_handler, gpe_enabled, probe_ret,
                   suspended, removed, init_errors, sync_seen, init_seen,
                   notify_seen>>
    /\ UNCHANGED <<ledVars, paramVars, ckVars>>

\* Scancode bytes of the frames: no key, KEY_F1 and the first index beyond
\* the table.
KbdScancodes == {0, 58, ScancodesSize}

NoKeys == [i \in Slots |-> 0]

\* KEY_A .. KEY_F down together: every slot of the frame in use
SixKeys == [i \in Slots |-> 4 + i]

\* Frames with keys in the leading MaxDown slots, and the full frame.
KeyFrames ==
    {[i \in Slots |-> IF i < MaxDown THEN s[i + 1] ELSE 0] :
        s \in [1..MaxDown -> KbdScancodes]}
    \cup {SixKeys}

ModifierValues == {2}

FrameFnValues == {0, 1}

\* an Fn byte that is set and is not 1
FnByteValues == {2}

\* a packet_type that is none of the three
UnknownTags == {0}

Packets ==
    [packet_type : {PACKET_KEYBOARD}, modifiers : ModifierValues,
     keys_pressed : KeyFrames, fn_pressed : FrameFnValues]
    \cup [packet_type : {PACKET_NOTHING} \cup UnknownTags, modifiers : {0},
          keys_pressed : {NoKeys}, fn_pressed : {0}]

ReadStatuses == {0, -5}

\* What rx_buffer holds after a read that failed; the handler does not look.
FailedReadPackets ==
    {p \in Packets : p.keys_pressed \in {NoKeys, SixKeys} /\ p.fn_pressed = 0}

PacketsRead(status) == IF status < 0 THEN FailedReadPackets ELSE Packets

\* the outcomes of the release loop's reads: one when every index is inside
\* the table
OobOutcomes(status, packet) ==
    IF status >= 0 /\ packet.packet_type = PACKET_KEYBOARD
           /\ ReleaseReadsBeyond(packet)
    THEN OobValues
    ELSE {0}

ReadComplete ==
    \E status \in ReadStatuses :
        \E packet \in PacketsRead(status) :
            \E oob \in OobOutcomes(status, packet) :
                applespi_async_read_complete(status, packet, oob)

InitKbd ==
    /\ InitLedVars
    /\ InitKbdVars
    /\ InitTpVars
    /\ InitParams
    /\ InitCk
    /\ InitDevBound

NextKbd == ReadComplete

SpecKbd == InitKbd /\ [][NextKbd]_vars

(***************************************************************************)
(* The packet handler fed with touchpad packets.                           *)
(***************************************************************************)
\* struct tp_finger, the fields report_tp_state and report_finger_data read
TpFinger(touch_major, touch_minor, tool_major, tool_minor, orientation, abs_x, abs_y) ==
    [touch_major |-> touch_major, touch_minor |-> touch_minor,
     tool_major |-> tool_major, tool_minor |-> tool_minor,
     orientation |-> orientation, abs_x |-> abs_x, abs_y |-> abs_y]

\* an entry of the array with no finger on it
NoFinger == TpFinger(0, 0, 0, 0, 0, 0, 0)

\* abs_x of the places a finger can be down at: x = -100 (65436 as __le16),
\* 0, 1000 and 1100
FingerPlaces == <<65436, 0, 1000, 1100>>

\* A finger down at each of the first MaxPlaces places, with a touch area of
\* its own.
FingersDown ==
    {TpFinger(300 + (10 * k), 200 + (10 * k), 400 + (10 * k), 300 + (10 * k),
              16384, FingerPlaces[k], 0) : k \in 1..MaxPlaces}

\* Frames with samples in the two leading entries of the array.
TouchFrames ==
    {[i \in Fingers |-> IF i < 2 THEN f[i + 1] ELSE NoFinger] :
        f \in [1..2 -> FingersDown \cup {NoFinger}]}

TouchpadPackets == [packet_type : {PACKET_TOUCHPAD}, fingers : TouchFrames]

\* What rx_buffer holds after a read that failed; the handler does not look.
FailedTouchpadPackets ==
    {p \in TouchpadPackets : \A i \in Fingers : p.fingers[i] = NoFinger}

TouchpadPacketsRead(status) ==
    IF status < 0 THEN FailedTouchpadPackets ELSE TouchpadPackets

TouchpadRead ==
    \E status \in ReadStatuses :
        \E packet \in TouchpadPacketsRead(status) :
            applespi_async_read_complete(status, packet, 0)

InitTp ==
    /\ InitLedVars
    /\ InitKbdVars
    /\ InitTpVars
    /\ InitParams
    /\ InitCk
    /\ InitDevBound

NextTp == TouchpadRead

SpecTp == InitTp /\ [][NextTp]_vars

(***************************************************************************)
(* SpecPkt: packets of every tag in one stream, as the device sends them:  *)
(* Keyboard packets with at most one key, Touchpad packets with at most    *)
(* one finger, PACKET_NOTHING and an unknown tag.                          *)
(***************************************************************************)
PktKeyboardPackets ==
    {p \in Packets :
        /\ p.packet_type = PACKET_KEYBOARD
        /\ \A i \in Slots : i > 0 => p.keys_pressed[i] = 0
        /\ p.keys_pressed[0] < ScancodesSize}
    \cup [packet_type : {PACKET_KEYBOARD}, modifiers : ModifierValues,
          keys_pressed : {NoKeys}, fn_pressed : FnByteValues]

PktIdlePackets == {p \in Packets : p.packet_type # PACKET_KEYBOARD}

PktTouchpadPackets ==
    {p \in TouchpadPackets : \A i \in Fingers : i > 0 => p.fingers[i] = NoFinger}

PktPacketsRead(status) ==
    IF status < 0 THEN PktIdlePackets
    ELSE PktKeyboardPackets \cup PktIdlePackets \cup PktTouchpadPackets

PacketRead ==
    \E status \in ReadStatuses :
        \E packet \in PktPacketsRead(status) :
            applespi_async_read_complete(status, packet, 0)

InitPkt ==
    /\ InitLedVars
    /\ InitKbdVars
    /\ InitTpVars
    /\ InitParams
    /\ InitCk
    /\ InitDevBound

NextPkt == PacketRead

SpecPkt == InitPkt /\ [][NextPkt]_vars

(***************************************************************************)
(* SpecDev: the life of the device, from applespi_probe to applespi_remove, *)
(* with the GPE and the reads it triggers.                                 *)
(***************************************************************************)
\* applespi_init(applespi): the flush read, then the one command of
\* applespi_init_commands as a write exchange whose result is dropped.  by
\* names the caller.
applespi_init(by, xfer, status) ==
    \E st \in {IF xfer.status = 0 THEN status ELSE tx_status} :
        /\ tx_buffer' = applespi_init_command
        /\ rx_buffer' = IdlePacket
        /\ tx_status' = st
        /\ sync_seen' =
               <<[result |-> applespi_sync(xfer),
                  status |-> st,
                  ret    |-> applespi_sync_write_and_response(xfer, st),
                  warned |-> applespi_check_write_status(
                                 applespi_sync(xfer), st)]>>
        /\ init_seen' = <<[by |-> by, armed |-> gpe_enabled,
                           inflight |-> rd_inflight]>>

\* applespi_init is not reached
NoInit == UNCHANGED <<tx_buffer, rx_buffer, tx_status, sync_seen, init_seen>>

\* what the rest of the system can answer applespi_probe
ProbeInputs ==
    [usb : BOOLEAN, handles : BOOLEAN, dsm : DsmResults, sist : BOOLEAN,
     sien : BOOLEAN, xfer : SpiSyncOutcomes, status : StatusesRead,
     gpe : BOOLEAN, install : BOOLEAN, enable : BOOLEAN]

\* applespi_probe(spi) from the UIST test on; the allocations and the
\* registration of the input devices before it succeed.  in.usb: UIST says
\* the USB interface is enabled; in.handles: SIEN and SIST are found;
\* in.gpe, in.install, in.enable: _GPE, acpi_install_gpe_handler and
\* acpi_enable_gpe succeed.
applespi_probe(in) ==
    LET set      == applespi_get_spi_settings(spi_settings, in.dsm)
        en       == applespi_enable_spi(in.sist, in.sien)
        at_setup == ~in.usb /\ in.handles
        at_enable == at_setup /\ set.ret = 0
        at_init  == at_enable /\ en = 0
        ret      == IF ~at_setup THEN -19
                    ELSE IF set.ret # 0 THEN set.ret
                    ELSE IF en # 0 THEN en
                    ELSE IF ~in.gpe \/ ~in.install \/ ~in.enable THEN -19
                    ELSE 0
    IN  /\ probe_ret = <<>>
        /\ spi_settings' = IF at_setup THEN set.settings ELSE spi_settings
        /\ IF at_init THEN applespi_init("probe", in.xfer, in.status)
           ELSE NoInit
        /\ gpe_handler' = (ret = 0)
        /\ gpe_enabled' = (ret = 0)
        /\ probe_ret' = <<ret>>
        /\ init_errors' =
               {e \in {"method unavailable", "parameter absent",
                       "spi enable failed", "mode switch failed"} :
                   \/ e = "method unavailable"
                        /\ at_setup /\ in.dsm.type # "package"
                   \/ e = "parameter absent"
                        /\ at_setup /\ in.dsm.type = "package"
                        /\ ~(applespi_spi_settings_map \subseteq in.dsm.names)
                   \/ e = "spi enable failed" /\ at_enable /\ en # 0
                   \/ e = "mode switch failed"
                        /\ at_init
                        /\ (in.xfer.status < 0 \/ in.status # sts_ok)}
        /\ UNCHANGED <<gpe_masked, rd_inflight, suspended, removed, notify_seen>>
        /\ UNCHANGED <<rd_m_status, last_keys_pressed, last_keys_fn_pressed,
                       last_fn_pressed, kbd_events, oob_index, press_fn,
                       keys_down, fn_history>>
        /\ UNCHANGED <<want_cl_led_on, have_cl_led_on, led_msg_cntr,
                       led_msg_queued, led_msg_lock, wr_inflight, led_log,
                       led_requests, flight_reqs>>
        /\ UNCHANGED <<tpVars, paramVars, ckVars>>

\* the device is bound to the driver
Bound == probe_ret = <<0>> /\ ~removed

\* applespi_notify on a GPE that is enabled again when the handler returns
\* (ACPI_REENABLE_GPE) and not by acpi_finish_gpe
applespi_notify_reenable(sts) ==
    /\ gpe_handler
    /\ gpe_enabled
    /\ ~gpe_masked
    /\ gpe_masked' = FALSE
    /\ rd_inflight' = (rd_inflight \/ sts = 0)
    /\ notify_seen' = <<[inflight |-> rd_inflight]>>
    /\ UNCHANGED <<spi_settings, tx_status, gpe_handler, gpe_enabled, probe_ret,
                   suspended, removed, init_errors, sync_seen, init_seen>>
    /\ UNCHANGED <<ledVars, kbdVars, tpVars, paramVars, ckVars>>

\* applespi_notify(gpe_device, gpe, context): ACPI calls it when the GPE
\* fires, with the GPE masked until acpi_finish_gpe; sts is what spi_async
\* answers, which the handler drops.
applespi_notify(sts) ==
    /\ gpe_handler
    /\ gpe_enabled
    /\ ~gpe_masked
    /\ gpe_masked' = TRUE
    /\ rd_inflight' = (sts = 0)
    /\ notify_seen' = <<[inflight |-> rd_inflight]>>
    /\ UNCHANGED <<spi_settings, tx_status, gpe_handler, gpe_enabled, probe_ret,
                   suspended, removed, init_errors, sync_seen, init_seen>>
    /\ UNCHANGED <<ledVars, kbdVars, tpVars, paramVars, ckVars>>

\* applespi_suspend(dev): it only logs; the PM core has the device suspended
applespi_suspend ==
    /\ Bound
    /\ ~suspended
    /\ suspended' = TRUE
    /\ UNCHANGED <<spi_settings, tx_status, gpe_handler, gpe_enabled,
                   gpe_masked, rd_inflight, probe_ret, removed, init_errors,
                   sync_seen, init_seen,
                   notify_seen>>
    /\ UNCHANGED <<ledVars, kbdVars, tpVars, paramVars, ckVars>>

\* applespi_resume(dev): applespi_enable_spi, whose result is dropped, then
\* applespi_init
applespi_resume(xfer, status) ==
    /\ Bound
    /\ suspended
    /\ suspended' = FALSE
    /\ applespi_init("resume", xfer, status)
    /\ UNCHANGED <<spi_settings, gpe_handler, gpe_enabled, gpe_masked,
                   rd_inflight, probe_ret, removed, init_errors, notify_seen>>
    /\ UNCHANGED <<rd_m_status, last_keys_pressed, last_keys_fn_pressed,
                   last_fn_pressed, kbd_events, oob_index, press_fn,
                   keys_down, fn_history>>
    /\ UNCHANGED <<want_cl_led_on, have_cl_led_on, led_msg_cntr,
                   led_msg_queued, led_msg_lock, wr_inflight, led_log,
                   led_requests, flight_reqs>>
    /\ UNCHANGED <<tpVars, paramVars, ckVars>>

\* applespi_remove(spi): acpi_disable_gpe, acpi_remove_gpe_handler.  When it
\* returns the driver core releases what applespi_probe took with devm_:
\* rx_buffer, tx_buffer, tx_status and struct applespi_data itself.
applespi_remove ==
    /\ Bound
    /\ removed' = TRUE
    /\ gpe_enabled' = FALSE
    /\ gpe_handler' = FALSE
    /\ UNCHANGED <<spi_settings, tx_status, gpe_masked, rd_inflight, probe_ret,
                   suspended, init_errors, sync_seen, init_seen,
                   notify_seen>>
    /\ UNCHANGED <<ledVars, kbdVars, tpVars, paramVars, ckVars>>

\* what a read triggered by the GPE brings: a key down, a key up, nothing
DevPackets ==
    {p \in Packets : p.packet_type = PACKET_KEYBOARD /\ p.fn_pressed = 0
                     /\ \A i \in Slots : i > 0 => p.keys_pressed[i] = 0}
        \cup {IdlePacket}

Probe == \E in \in ProbeInputs : applespi_probe(in)

Notify == \E sts \in SpiAsyncResults : applespi_notify(sts)

\* the SPI core completes the rd_m that applespi_notify queued
DevReadComplete ==
    /\ rd_inflight
    /\ \E status \in ReadStatuses :
           \E packet \in (IF status < 0 THEN {IdlePacket} ELSE DevPackets) :
               applespi_async_read_complete(status, packet, 0)

Suspend == applespi_suspend

Resume ==
    \E xfer \in SpiSyncOutcomes, status \in StatusesRead :
        applespi_resume(xfer, status)

Remove == applespi_remove

InitDev ==
    /\ InitLedVars
    /\ InitKbdVars
    /\ InitTpVars
    /\ InitParams
    /\ InitCk
    /\ InitDevVars

NextDev == Probe \/ Notify \/ DevReadComplete \/ Suspend \/ Resume \/ Remove

SpecDev == InitDev /\ [][NextDev]_vars

\* the SPI core completes every message it has queued
SpecDevLive == SpecDev /\ WF_vars(DevReadComplete)

(***************************************************************************)
(* SpecPm: the bound device with the caps lock LED in use across suspend   *)
(* and resume.  applespi_event can come from the input core at any time    *)
(* the keyboard is registered; applespi_suspend and applespi_resume take   *)
(* no lock and look at no flag of the LED queue.                           *)
(***************************************************************************)
InitPm ==
    /\ InitLedVars
    /\ InitKbdVars
    /\ InitTpVars
    /\ InitParams
    /\ InitCk
    /\ InitDevBound

NextPm == SetLeds \/ WriteComplete \/ Suspend \/ Resume

SpecPm == InitPm /\ [][NextPm]_vars


(***************************************************************************)
(* Properties of the LED command queue (under SpecLed).                    *)
(***************************************************************************)
LastOf(seq) == seq[Len(seq)]

\* The step is the completion callback (every other step of SpecLed is a
\* request and counts in led_requests).
IsWriteCompleteStep == led_requests' = led_requests /\ wr_inflight > 0

IsSetLedsStep == led_requests' = led_requests + 1

\* Commands handed to spi_async by the step.
LedDispatched == Len(led_log') - Len(led_log)

\* The on/off value of the command in flight (the last one spi_async took).
LedInFlightValue ==
    LET acc == {k \in 1..Len(led_log) : led_log[k].accepted}
    IN  IF acc = {} THEN FALSE
        ELSE led_log[CHOOSE k \in acc : \A j \in acc : j <= k].on

LedAllAccepted == \A k \in 1..Len(led_log) : led_log[k].accepted

LedIdle == ~led_msg_queued /\ wr_inflight = 0

\* C1: at most one LED command is outstanding on the bus; a command is
\* handed to spi_async only when led_msg_queued was tested false; and
\* led_msg_queued is true exactly while an accepted command has not completed.
C1_SingleInFlight ==
    /\ wr_inflight <= 1
    /\ led_msg_queued <=> (wr_inflight = 1)
    /\ \A k \in 1..Len(led_log) : ~led_log[k].queued_before

\* C1 witness: a command is in flight after an earlier one completed, and
\* two requests arrived during the flight.
C1_Witness ==
    /\ led_msg_queued
    /\ Len(led_log) >= 2
    /\ Len(flight_reqs) >= 2

\* C2: when every command handed to the bus is accepted and completes, the
\* queue ends up, and stays, idle with the last command dispatched carrying the
\* latest requested value (and with nothing dispatched only when the latest
\* request asks for the initial value, have_cl_led_on = want_cl_led_on).
C2_Converges ==
    <>[](LedAllAccepted =>
            /\ LedIdle
            /\ have_cl_led_on = want_cl_led_on
            /\ (led_log # <<>> => LastOf(led_log).on = want_cl_led_on))

\* C2 witness: the queue is idle on the latest requested value after a request
\* that arrived during a flight was served by the completion callback.
C2_Witness ==
    /\ LedAllAccepted
    /\ LedIdle
    /\ Len(led_log) >= 2
    /\ LastOf(led_log).by = "complete"
    /\ LastOf(led_log).on = want_cl_led_on
    /\ led_requests >= 2

\* C3 as stated: a completion dispatches at most one command, exactly one
\* carrying the latest requested value when that differs from the value in
\* flight, and exactly one after two request(true) calls during the flight.
C3_Original ==
    [][IsWriteCompleteStep =>
          /\ LedDispatched <= 1
          /\ (want_cl_led_on # LedInFlightValue =>
                 LedDispatched = 1 /\ LastOf(led_log').on = want_cl_led_on)
          /\ (flight_reqs = <<TRUE, TRUE>> => LedDispatched = 1)]_vars

\* C3 amended: a completion dispatches at most one command; it dispatches
\* one, carrying the latest requested value, exactly when that value differs
\* from the value in flight; so two request(true) calls during a flight
\* produce one further send when the flight carries off and none when it
\* carries on.
C3_CompletionDispatch ==
    [][IsWriteCompleteStep =>
          /\ LedDispatched \in {0, 1}
          /\ (LedDispatched = 1) <=> (want_cl_led_on # LedInFlightValue)
          /\ (LedDispatched = 1 =>
                 /\ LastOf(led_log').on = want_cl_led_on
                 /\ LastOf(led_log').by = "complete")
          /\ (flight_reqs = <<TRUE, TRUE>> =>
                 ((LedDispatched = 1) <=> ~LedInFlightValue))]_vars

\* C3 witness: a completion has dispatched one command (on) after
\* request(true) was made twice while the previous command was in flight.
C3_Witness ==
    \E k \in 1..Len(led_log) :
        /\ led_log[k].by = "complete"
        /\ led_log[k].after = <<TRUE, TRUE>>
        /\ led_log[k].on

\* C4: a request made while a command is in flight, or for the value last
\* sent, stores the desired value and nothing else: no command is handed to
\* spi_async and have_cl_led_on, led_msg_queued, led_msg_cntr and tx_buffer
\* keep their values.
C4_RequestNoOp ==
    [][(IsSetLedsStep /\ (led_msg_queued \/ want_cl_led_on' = have_cl_led_on)) =>
          UNCHANGED <<have_cl_led_on, led_msg_queued, led_msg_cntr, tx_buffer,
                      led_log, wr_inflight>>]_vars

\* C4 witness: a request for the other value was made during a flight and
\* is still pending.
C4_Witness ==
    /\ led_msg_queued
    /\ flight_reqs # <<>>
    /\ want_cl_led_on # have_cl_led_on
    /\ LastOf(flight_reqs) = want_cl_led_on

(***************************************************************************)
(* Properties of applespi_code_to_key (under SpecKey).                     *)
(***************************************************************************)
\* The key the scancode table gives for the call's scancode.
CkRawKey == ScancodeAt(ck_in.code, ck_in.oob)

CkFnHeld == ck_in.fn_pressed # 0

\* The key the call returned.
CkKey == ck_out[1]

\* F1..F12 with the key each turns into, as the rows of applespi_fn_codes
\* list them; Fn sits at scancode 57 + n.
FunctionRow ==
    << <<59, 224>>, <<60, 225>>, <<61, 120>>, <<62, 204>>, <<63, 229>>,
       <<64, 230>>, <<65, 165>>, <<66, 164>>, <<67, 163>>, <<68, 113>>,
       <<87, 114>>, <<88, 115>> >>

FlaggedEntries ==
    {k \in 1..Len(applespi_fn_codes) :
        applespi_fn_codes[k].from # 0 /\ applespi_fn_codes[k].flags = APPLE_FLAG_FKEY}

UnflaggedEntries ==
    {k \in 1..Len(applespi_fn_codes) :
        applespi_fn_codes[k].from # 0 /\ applespi_fn_codes[k].flags = 0}

\* C8: on the scancode of F1 (and likewise of F2..F12) the result is
\* brightness-down (the row's media key) with fnmode 1 and Fn not held and
\* F1 with Fn held; with fnmode 2 the other way round; with fnmode 0 it is
\* F1 for every Fn value.
C8_FunctionRow ==
    ck_out # NotCalled =>
        \A n \in 1..12 :
            ck_in.code = 57 + n =>
                LET fkey  == FunctionRow[n][1]
                    media == FunctionRow[n][2]
                IN  /\ FunctionRow[1] = <<KEY_F1, KEY_BRIGHTNESSDOWN>>
                    /\ fnmode = 1 => CkKey = IF CkFnHeld THEN fkey ELSE media
                    /\ fnmode = 2 => CkKey = IF CkFnHeld THEN media ELSE fkey
                    /\ fnmode = 0 => CkKey = fkey

\* C8 witness: F1 without Fn under fnmode 1 came out as brightness-down.
C8_Witness ==
    /\ ck_out = <<KEY_BRIGHTNESSDOWN>>
    /\ ck_in.code = 58
    /\ fnmode = 1
    /\ ~CkFnHeld

\* C9 as stated: a flagged entry is translated exactly when (fnmode is 2,
\* fkeys-first, and Fn is not held) or (fnmode is 1, fkeys-last, and Fn is
\* held).
C9_Original ==
    ck_out # NotCalled =>
        \A k \in FlaggedEntries :
            CkRawKey = applespi_fn_codes[k].from =>
                ((CkKey = applespi_fn_codes[k].to) <=>
                     ((fnmode = 2 /\ ~CkFnHeld) \/ (fnmode = 1 /\ CkFnHeld)))

\* C9 amended: a flagged entry is translated exactly when (fnmode is 2,
\* fkeys-first, and Fn is held) or (fnmode is 1, fkeys-last, and Fn is not
\* held), and in no other combination of fnmode and Fn.
C9_FlaggedTranslation ==
    ck_out # NotCalled =>
        \A k \in FlaggedEntries :
            CkRawKey = applespi_fn_codes[k].from =>
                /\ (CkKey = applespi_fn_codes[k].to) <=>
                       ((fnmode = 2 /\ CkFnHeld) \/ (fnmode = 1 /\ ~CkFnHeld))
                /\ CkKey \in {applespi_fn_codes[k].to, applespi_fn_codes[k].from}

\* C9 witness: a flagged entry was translated under fnmode 2 with Fn held.
C9_Witness ==
    /\ ck_out # NotCalled
    /\ fnmode = 2
    /\ CkFnHeld
    /\ \E k \in FlaggedEntries :
          CkRawKey = applespi_fn_codes[k].from /\ CkKey = applespi_fn_codes[k].to

\* The ISO exchange of grave and 102nd as the claim words it.
IsoSwapped(key) ==
    IF iso_layout = 0 THEN key
    ELSE IF key = KEY_GRAVE THEN KEY_102ND
    ELSE IF key = KEY_102ND THEN KEY_GRAVE
    ELSE key

\* C10: an entry without the flag (backspace, enter, the four arrows) is
\* translated exactly when Fn is held, for every fnmode other than 0; with
\* fnmode 0 the result is the scancode table's key, ISO exchange aside, for
\* every scancode and Fn value.
C10_UnflaggedTranslation ==
    ck_out # NotCalled =>
        /\ {applespi_fn_codes[k].from : k \in UnflaggedEntries}
              = {14, 28, 103, 105, 106, 108}
        /\ fnmode # 0 =>
              \A k \in UnflaggedEntries :
                  CkRawKey = applespi_fn_codes[k].from =>
                      /\ (CkKey = applespi_fn_codes[k].to) <=> CkFnHeld
                      /\ ~CkFnHeld => CkKey = applespi_fn_codes[k].from
        /\ fnmode = 0 => CkKey = IsoSwapped(CkRawKey)

\* C10 witness: backspace with Fn held stayed backspace under fnmode 0.
C10_Witness ==
    /\ ck_out = <<14>>
    /\ CkRawKey = 14
    /\ fnmode = 0
    /\ CkFnHeld

(***************************************************************************)
(* Properties of the keyboard branch of applespi_got_data (under SpecKbd). *)
(* In a step, the unprimed history is the one the packet met and the       *)
(* primed rx_buffer is the packet.                                         *)
(***************************************************************************)
\* The step handled a Keyboard packet.
KeyboardHandled ==
    /\ rd_m_status' >= 0
    /\ rx_buffer'.packet_type = PACKET_KEYBOARD

\* positions in events of the calls made by the loop path for slot
EventsOn(events, path, slot) ==
    {n \in DOMAIN events : events[n].path = path /\ events[n].slot = slot}

\* the history's scancode at slot i is in none of the frame's slots
GoneFrom(frame, i) == \A j \in Slots : frame[j] # last_keys_pressed[i]

\* C5 as stated: handling a Keyboard packet emits exactly one release event
\* for each key of the history whose scancode is in none of the frame's six
\* slots, exactly one press event for each non-zero slot of the frame, and
\* no other event off the modifier and Fn paths.
C5_Original ==
    [][KeyboardHandled =>
          LET frame == rx_buffer'.keys_pressed
              ev    == kbd_events'
              gone  == {c \in {last_keys_pressed[i] : i \in Slots} \ {0} :
                           \A j \in Slots : frame[j] # c}
          IN  /\ \A c \in gone :
                     Cardinality({n \in DOMAIN ev :
                         ev[n].path = "release" /\ ev[n].code = c}) = 1
              /\ \A i \in Slots :
                     frame[i] # 0 => Cardinality(EventsOn(ev, "press", i)) = 1
              /\ \A n \in DOMAIN ev :
                     \/ ev[n].path \in {"mod", "fn"}
                     \/ ev[n].path = "release" /\ ev[n].code \in gone
                     \/ ev[n].path = "press" /\ frame[ev[n].slot] # 0]_vars

\* C5 amended: handling a Keyboard packet emits exactly one release event
\* for each of the six history slots whose scancode is in none of the
\* frame's six slots (an empty history slot included, when the frame has no
\* empty slot), exactly one press event for each slot of the frame whose
\* scancode is non-zero and below the size of the scancode table (a slot
\* holding a scancode at or beyond the size gets none), and no other event
\* off the modifier and Fn paths.
C5_KeyDiff ==
    [][KeyboardHandled =>
          LET frame == rx_buffer'.keys_pressed
              ev    == kbd_events'
          IN  /\ \A i \in Slots :
                     Cardinality(EventsOn(ev, "release", i))
                         = IF GoneFrom(frame, i) THEN 1 ELSE 0
              /\ \A i \in Slots :
                     Cardinality(EventsOn(ev, "press", i))
                         = IF frame[i] # 0 /\ frame[i] < ScancodesSize
                           THEN 1 ELSE 0
              /\ \A n \in DOMAIN ev :
                     \/ /\ ev[n].path = "release"
                        /\ ev[n].code = last_keys_pressed[ev[n].slot]
                        /\ ev[n].value = 0
                     \/ /\ ev[n].path = "press"
                        /\ ev[n].code = frame[ev[n].slot]
                        /\ ev[n].value = 1
                     \/ /\ ev[n].path = "mod"
                        /\ \E m \in 1..8 : ev[n].key = applespi_controlcodes[m]
                     \/ /\ ev[n].path = "fn"
                        /\ ev[n].key = KEY_FN]_vars

\* C5 witness: a Keyboard packet with a scancode beyond the table in one
\* slot was handled, with a release and a press reported and none for that
\* slot.
C5_Witness ==
    /\ rd_m_status >= 0
    /\ rx_buffer.packet_type = PACKET_KEYBOARD
    /\ \E n \in DOMAIN kbd_events : kbd_events[n].path = "release"
    /\ \E n \in DOMAIN kbd_events : kbd_events[n].path = "press"
    /\ \E i \in Slots :
          /\ rx_buffer.keys_pressed[i] >= ScancodesSize
          /\ EventsOn(kbd_events, "press", i) = {}

\* C6: the release event of a key carries the key code translated with the
\* Fn state of the frame in which the key came down, not that of a later
\* frame in which it was still held, and the Fn state stored for the slot is
\* cleared by the release (the slot keeps a value only if the same frame
\* presses a key in it).
C6_ReleaseUsesPressFn ==
    [][KeyboardHandled =>
          \A n \in DOMAIN kbd_events' :
              LET e == kbd_events'[n]
              IN  (e.path = "release" /\ e.code \in DOMAIN press_fn) =>
                      /\ e.key = CodeToKey(fnmode, iso_layout, e.code,
                                           press_fn[e.code], 0)
                      /\ (~Pressable(rx_buffer'.keys_pressed[e.slot]) =>
                              last_keys_fn_pressed'[e.slot] = 0)]_vars

\* C7: whatever the scancode bytes of the frames, the scancode table is
\* never indexed at or beyond its size: no press and no release is reported
\* from a scancode outside the table.
C7_TableIndexInRange ==
    /\ ~oob_index
    /\ \A n \in DOMAIN kbd_events :
          kbd_events[n].path \in {"release", "press"} =>
              kbd_events[n].code < ScancodesSize

\* The key the call had after its Fn translation, before the ISO block.
CkFnKey == FnTranslate(fnmode, CkRawKey, ck_in.fn_pressed)

\* C11: with iso_layout enabled the key left by the Fn translation is
\* exchanged grave <-> 102nd and every other key is returned unchanged, so
\* the exchange applied twice gives the key back; with iso_layout disabled
\* the key is returned as it is, for every scancode, Fn state and fnmode.
C11_IsoSwap ==
    ck_out # NotCalled =>
        /\ iso_layout # 0 =>
              /\ CkKey = IF CkFnKey = KEY_GRAVE THEN KEY_102ND
                         ELSE IF CkFnKey = KEY_102ND THEN KEY_GRAVE
                         ELSE CkFnKey
              /\ IsoTranslate(iso_layout, CkKey) = CkFnKey
        /\ iso_layout = 0 => CkKey = CkFnKey

\* C11 witness: with iso_layout enabled the 102nd key came out as grave.
C11_Witness ==
    /\ ck_out = <<KEY_GRAVE>>
    /\ CkFnKey = KEY_102ND
    /\ iso_layout # 0

(***************************************************************************)
(* Properties of the device (under SpecDev and SpecDevLive).               *)
(***************************************************************************)
\* the last write exchange failed: the transfer result is negative or the
\* status is not sts_ok
ExchangeFailed ==
    sync_seen[1].result < 0 \/ sync_seen[1].status # <<172, 39, 104, 213>>

\* C15: applespi_sync_write_and_response reports failure to its caller (a
\* negative return value) whenever the transfer result is negative or the
\* 4-byte status differs from {0xAC, 0x27, 0x68, 0xD5}, and success only when
\* the result is non-negative and the status matches.
C15_WriteFailureReported ==
    sync_seen # <<>> => (sync_seen[1].ret < 0 <=> ExchangeFailed)

\* C16: after every trigger of the GPE, whatever becomes of the read, the
\* GPE is eventually handed back by acpi_finish_gpe.
C16_EventSourceReenabled == gpe_masked ~> ~gpe_masked

\* C17: when applespi_probe meets an initialization error (the _DSM method
\* unavailable, a timing parameter absent from its package, enabling SPI
\* failing, the mode-switch write exchange failing) it fails and the GPE is
\* never enabled.
C17_InitErrorAborts ==
    init_errors # {} => (probe_ret[1] < 0 /\ ~gpe_enabled /\ ~gpe_handler)

\* C20: applespi_init never runs while the GPE is enabled or while a read
\* triggered by the GPE is in flight, whether applespi_probe or
\* applespi_resume calls it.
C20_InitNotConcurrent ==
    init_seen # <<>> => (~init_seen[1].armed /\ ~init_seen[1].inflight)

(***************************************************************************)
(* The CRC of the LED command (under SpecLed).                             *)
(***************************************************************************)
\* CRC-16 (polynomial 0xA001, least significant bit first) of
\* buf[from .. from + len - 1], one bit at a time
RECURSIVE Crc16Bitwise(_, _, _, _)
Crc16Bitwise(crc, buf, from, len) ==
    IF len = 0 THEN crc
    ELSE CHOOSE r \in {Crc16Bitwise(c, buf, from + 1, len - 1) :
                          c \in {Crc16Bits(BitXor(crc, buf[from]), 8)}} :
             TRUE

\* C18: the LED command handed to spi_async carries the counter in byte 11
\* and the on/off value in byte 17, and in bytes 18 and 19 the low and the
\* high byte of the CRC-16 (seed 0) of bytes 8..17 of that same buffer.
C18_LedCommandCrc ==
    led_log # <<>> =>
        LET crc == Crc16Bitwise(0, tx_buffer, 8, 10)
        IN  /\ tx_buffer[11] = (led_msg_cntr - 1) % 256
            /\ tx_buffer[17] = (IF have_cl_led_on THEN 2 ELSE 0)
            /\ tx_buffer[18] = crc % 256
            /\ tx_buffer[19] = crc \div 256

\* C18 witness: a command with a counter other than 0 that switches the LED
\* on was built.
C18_Witness ==
    /\ led_log # <<>>
    /\ tx_buffer[11] > 0
    /\ tx_buffer[17] = 2
    /\ (tx_buffer[19] * 256) + tx_buffer[18] = Crc16Bitwise(0, tx_buffer, 8, 10)

LedSendRefused ==
    /\ Len(led_log') = Len(led_log) + 1
    /\ ~LastOf(led_log').accepted

\* C28: when spi_async does not queue the LED command, the queue stays idle
\* and have_cl_led_on is left as it was before the attempt.
C28_RefusedSendKeepsHave ==
    [][LedSendRefused =>
          (~led_msg_queued' /\ wr_inflight' = 0
               /\ have_cl_led_on' = have_cl_led_on)]_vars

(***************************************************************************)
(* The LED command against its template (under SpecLedWrap).               *)
(***************************************************************************)
\* C23: every LED command built is applespi_caps_lock_led_cmd with only
\* bytes 11, 17, 18 and 19 changed; byte 17 is 2 for on and 0 for off; byte
\* 11 is the number of commands built before it modulo 256, so consecutive
\* commands carry consecutive counters that wrap from 255 to 0.
C23_TemplateAndCounter ==
    [][Len(led_log') = Len(led_log) + 1 =>
          /\ \A i \in (0..255) \ {11, 17, 18, 19} :
                 tx_buffer'[i] = applespi_caps_lock_led_cmd[i]
          /\ tx_buffer'[17] = (IF want_cl_led_on' THEN 2 ELSE 0)
          /\ tx_buffer'[11] \in 0..255
          /\ tx_buffer'[11] = led_msg_cntr % 256
          /\ led_msg_cntr' = led_msg_cntr + 1
          /\ led_log # <<>> =>
                 tx_buffer'[11] = (LastOf(led_log).seq + 1) % 256]_vars

\* C23 witness: a command with counter 255 was built and the next one built
\* carries counter 0 and switches the LED on.
C23_Witness ==
    \E n \in DOMAIN led_log :
        /\ n + 1 = Len(led_log)
        /\ led_log[n].seq = 255
        /\ led_log[n + 1].seq = 0
        /\ tx_buffer[11] = 0
        /\ tx_buffer[17] = 2

(***************************************************************************)
(* Properties of report_tp_state (under SpecTp).  In a step, the unprimed  *)
(* slots of the device are those the frame met and the primed rx_buffer is *)
(* the packet.                                                             *)
(***************************************************************************)
\* The step handled a Touchpad packet.
TouchpadHandled ==
    /\ rd_m_status' >= 0
    /\ rx_buffer'.packet_type = PACKET_TOUCHPAD

\* The last packet handled was a Touchpad packet.
TouchpadWasHandled ==
    /\ rd_m_status >= 0
    /\ rx_buffer.packet_type = PACKET_TOUCHPAD

\* the slot numbers of the finger updates, in the order of the updates
SlotsOf(events) == [n \in DOMAIN events |-> events[n].slot]

\* the slot numbers given to the fingers of the frame are pairwise distinct
\* members of 0..5
DistinctSlots ==
    /\ \A n \in DOMAIN tp_events' : tp_events'[n].slot \in 0..5
    /\ \A n, m \in DOMAIN tp_events' :
           n # m => tp_events'[n].slot # tp_events'[m].slot

\* a slot in use before the frame that no finger of the frame was given is
\* released
UnmatchedReleased ==
    \A s \in 0..5 :
        (mt_slots[s].active
             /\ \A n \in DOMAIN tp_events' : tp_events'[n].slot # s)
            => (s \in tp_released' /\ ~mt_slots'[s].active)

\* a frame identical to the one handled before it gives every finger the
\* slot it had
SameFrameSameSlots ==
    (TouchpadWasHandled /\ rx_buffer' = rx_buffer)
        => SlotsOf(tp_events') = SlotsOf(tp_events)

\* C12: the fingers of a touchpad frame get pairwise distinct slot numbers in
\* 0..5, a slot of the previous frame that no finger matched is released, and
\* a frame identical to the previous one gives every finger the same slot.
C12_SlotAssignment ==
    [][TouchpadHandled =>
          (DistinctSlots /\ UnmatchedReleased /\ SameFrameSameSlots)]_vars

\* the slots in use before the step
InUseBefore == {s \in 0..5 : mt_slots[s].active}

\* two positions no more than 100 units apart
Near(p, q) ==
    ((p.x - q.x) * (p.x - q.x)) + ((p.y - q.y) * (p.y - q.y)) <= 100 * 100

\* The frame has as many fingers as there were slots in use, and the finger
\* of update n is the one finger near the position of slot s, which is the
\* one slot near it.
MovedSmoothly(s, n) ==
    /\ Len(tp_events') = Cardinality(InUseBefore)
    /\ s \in InUseBefore
    /\ Near(mt_slots[s], tp_events'[n])
    /\ \A m \in DOMAIN tp_events' :
           Near(mt_slots[s], tp_events'[m]) => m = n
    /\ \A r \in InUseBefore :
           Near(mt_slots[r], tp_events'[n]) => r = s

\* a finger that moves smoothly from one frame to the next keeps its slot
\* number
SmoothKeepsSlot ==
    \A s \in 0..5 : \A n \in DOMAIN tp_events' :
        MovedSmoothly(s, n) => tp_events'[n].slot = s

\* a finger that touches down gets a slot number other than that of a finger
\* lifted in the frame before
NewFingerOtherSlot ==
    \A n \in DOMAIN tp_events' :
        tp_events'[n].slot \notin InUseBefore =>
            tp_events'[n].slot \notin tp_released

\* the fingers that touch down get the lowest slot numbers not in use
NewFingerLowestFree ==
    LET new == {tp_events'[n].slot : n \in DOMAIN tp_events'} \ InUseBefore
    IN  \A s \in new : \A r \in 0..5 :
            (r < s /\ r \notin InUseBefore) => r \in new

UpdateOf(f) ==
    [touch_major |-> raw2int(f.touch_major) * 2,
     touch_minor |-> raw2int(f.touch_minor) * 2,
     width_major |-> raw2int(f.tool_major) * 2,
     width_minor |-> raw2int(f.tool_minor) * 2,
     orientation |-> MAX_FINGER_ORIENTATION - raw2int(f.orientation),
     x           |-> raw2int(f.abs_x),
     y           |-> tp_info.y_min + tp_info.y_max - raw2int(f.abs_y)]

\* C14: a touchpad frame yields one finger update per sample with non-zero
\* touch-major, in order, and every update carries the position and the
\* shape (touch and width axes, orientation) of that one sample, also when a
\* sample with zero touch-major precedes it.
C14_UpdatePerActiveSample ==
    TouchpadWasHandled =>
        LET act == ActiveSamples(rx_buffer)
        IN  /\ Len(tp_events) = Len(act)
            /\ \A n \in DOMAIN tp_events :
                   \A k \in DOMAIN UpdateOf(NoFinger) :
                       tp_events[n][k] = UpdateOf(rx_buffer.fingers[act[n]])[k]

(***************************************************************************)
(* The Fn key (under SpecPkt) and the keys held across frames (SpecKbd).   *)
(***************************************************************************)
\* the KEY_FN reports among a packet's reports
FnReports(ev) == SelectSeq(ev, LAMBDA e : e.path = "fn")

\* C22: a KEY_FN event is reported only when a Keyboard packet is handled
\* whose Fn byte, taken as a boolean, differs from that of the Keyboard
\* packet handled before it (not set before the first): then exactly one,
\* a press if the byte is set and a release if it is clear, and its value
\* is the opposite of the KEY_FN event reported before it (a press if there
\* was none), so presses and releases alternate starting with a press.  A
\* packet that repeats the flag, and a packet that is not a Keyboard
\* packet, reports no KEY_FN event.
C22_FnAlternates ==
    [][LET ev     == FnReports(kbd_events')
           now    == rx_buffer'.fn_pressed # 0
           before == fn_history.frame # 0
       IN  IF KeyboardHandled
           THEN IF now = before
                THEN ev = <<>>
                ELSE /\ Len(ev) = 1
                     /\ ev[1].key = KEY_FN
                     /\ ev[1].value = (IF now THEN 1 ELSE 0)
                     /\ ev[1].value # fn_history.key
           ELSE ev = <<>>]_vars

\* C22 witness: a Keyboard packet with the Fn byte set to a value other
\* than 1 was handled after a KEY_FN press, and reported no KEY_FN event.
C22_Witness ==
    /\ rd_m_status >= 0
    /\ rx_buffer.packet_type = PACKET_KEYBOARD
    /\ rx_buffer.fn_pressed > 1
    /\ kbd_events # <<>>
    /\ FnReports(kbd_events) = <<>>
    /\ fn_history.key = 1

\* a Keyboard packet with all six slots empty is the last packet handled
AllEmptyHandled ==
    /\ rd_m_status >= 0
    /\ rx_buffer.packet_type = PACKET_KEYBOARD
    /\ \A i \in Slots : rx_buffer.keys_pressed[i] = 0
    /\ kbd_events # <<>>

\* C25: once a Keyboard packet with all six slots empty has been handled,
\* every key code the press loop reported down has been reported up since
\* its last press (fnmode and iso do not change during a behaviour).
C25_EmptyFrameReleasesAll ==
    AllEmptyHandled => keys_down = {}

(***************************************************************************)
(* The packet tag selects the component (under SpecPkt).                   *)
(***************************************************************************)
\* the last scancodes, the per-slot Fn bytes and the last Fn state
KeyboardHistory ==
    <<last_keys_pressed, last_keys_fn_pressed, last_fn_pressed>>

\* the touch tracking slots and positions
TouchTracking == <<pos, slots, mt_slots, tp_info>>

\* a packet was read whose tag is neither the keyboard's nor the touchpad's
IdleHandled ==
    /\ rd_m_status' >= 0
    /\ rx_buffer'.packet_type \notin {PACKET_KEYBOARD, PACKET_TOUCHPAD}

\* C24: a packet changes only the state of the component its tag selects.
\* A packet tagged PACKET_NOTHING or with an unknown tag reports no event
\* and changes neither the keyboard history, nor the touch tracking, nor the
\* LED queue; a Keyboard packet changes no touch slot or position and
\* reports nothing to the touchpad; a Touchpad packet changes nothing of
\* the keyboard history and reports nothing to the keyboard.
C24_TagSelectsComponent ==
    [][/\ IdleHandled =>
              /\ kbd_events' = <<>> /\ tp_events' = <<>> /\ tp_released' = {}
              /\ UNCHANGED <<KeyboardHistory, TouchTracking, ledVars>>
       /\ KeyboardHandled =>
              /\ tp_events' = <<>> /\ tp_released' = {}
              /\ UNCHANGED TouchTracking
       /\ TouchpadHandled =>
              /\ kbd_events' = <<>>
              /\ UNCHANGED KeyboardHistory]_vars

\* C24 witness: a packet with an unknown tag was handled while a key was
\* held with Fn set and a finger was on the touchpad: the Keyboard packet
\* came first, the Touchpad packet after it, the unknown one last.
C24_Witness ==
    /\ rd_m_status >= 0
    /\ rx_buffer.packet_type \in UnknownTags
    /\ last_keys_pressed[0] # 0
    /\ last_fn_pressed # 0
    /\ \E s \in Fingers : mt_slots[s].active
    /\ kbd_events = <<>>
    /\ tp_events = <<>>

(***************************************************************************)
(* The read the GPE triggers (under SpecDev).                              *)
(***************************************************************************)
\* C26: at most one read triggered by the GPE is in flight: applespi_notify
\* never sets up rd_m, dl_t and rd_t while the read it queued before has not
\* completed, and while a read is in flight the GPE stays masked, which only
\* the acpi_finish_gpe at the end of applespi_async_read_complete undoes.
C26_OneReadInFlight ==
    /\ notify_seen # <<>> => ~notify_seen[1].inflight
    /\ rd_inflight => gpe_masked

\* C26 witness: a read is in flight, queued by applespi_notify after an
\* earlier read has completed and its Keyboard packet has been handled.
C26_Witness ==
    /\ rd_inflight
    /\ gpe_masked
    /\ notify_seen # <<>>
    /\ rd_m_status >= 0
    /\ rx_buffer.packet_type = PACKET_KEYBOARD
    /\ kbd_events # <<>>

\* C21: once applespi_remove has returned, and rx_buffer, tx_buffer and
\* tx_status are released with it, no read queued by applespi_notify is in
\* flight or still to complete against them.
C21_NoTransferAfterRelease ==
    removed => ~rd_inflight

(***************************************************************************)
(* The transmit buffer (under SpecPm).                                     *)
(***************************************************************************)
\* tx_buffer is written in this step: applespi_send_leds_cmd builds a
\* command, or applespi_resume runs applespi_init
TxBufferWritten ==
    \/ Len(led_log') = Len(led_log) + 1
    \/ suspended /\ ~suspended'

\* the writes in flight while the step writes: when the step is the
\* completion callback of a write, that write is over
WritesInFlight ==
    IF Len(led_log') = Len(led_log) + 1 /\ LastOf(led_log').by = "complete"
    THEN wr_inflight - 1
    ELSE wr_inflight

\* C27: tx_buffer and tx_status are never written while a write that uses
\* them is in flight: neither applespi_send_leds_cmd nor applespi_init
\* writes tx_buffer between the dispatch of a write and its completion.
C27_TxBufferNotShared ==
    [][(TxBufferWritten \/ tx_buffer' # tx_buffer \/ tx_status' # tx_status)
           => WritesInFlight = 0]_vars
====
